---------------------------- MODULE Spec2Model ----------------------------
(***************************************************************************)
(* TextTopo: batch extraction of text from .docx packages.                 *)
(*                                                                         *)
(* The model follows these source files:                                   *)
(*   DOCXToText/Pipeline/Batch.py        process_files_in_parallel,        *)
(*                                       process_with_semaphore,           *)
(*                                       process_file                      *)
(*   DOCXToText/Converters/LibreOffice.py                                  *)
(*                                       convert_docx_via_libreoffice_async*)
(*   DOCXToText/Extractors/DOCXExtractor.py  extract_content               *)
(*   DOCXToText/Converters/Repair.py     repair_docx_strip_customxml       *)
(*   DOCXToText/Converters/LibreOffice.py  _find_soffice_executable        *)
(*   ExtractText.py                      extract_content_with_python_docx  *)
(*                                                                         *)
(* Spec is a batch (process_files_in_parallel); SpecExtract, SpecRepair,   *)
(* SpecOutput, SpecFind, SpecText, SpecProbe and SpecCleanup each follow   *)
(* one call of one function.  SpecTally is process_files_in_parallel on a  *)
(* list of paths with process_file as a call that returns or raises, and   *)
(* FairTally is SpecTally under the fairness of the event loop.            *)
(*                                                                         *)
(* One action is one run of a coroutine between two suspension points      *)
(* (await): asyncio runs such a segment without interleaving any other     *)
(* task of the same event loop.  The soffice subprocesses are external     *)
(* processes: they run, exit or hang independently of the event loop.      *)
(* The await of asyncio.create_subprocess_exec is folded into the segment   *)
(* before it: the converter reads nothing another task could change while  *)
(* the subprocess is being started.                                        *)
(*                                                                         *)
(* What the host decides (whether a file exists, the exit code of soffice, *)
(* whether it wrote its artifact, whether it finished in time, whether     *)
(* python-docx can open a package) is drawn with \E where the code reads   *)
(* it.                                                                     *)
(***************************************************************************)
EXTENDS Integers, Sequences, FiniteSets, TLC

\* Number of paths of the largest batch handed to process_files_in_parallel.
NumFiles == 2

\* Largest value of config.concurrency_limit that is tried.
MaxConcurrency == 2

\* The universe of input paths; a batch is a prefix 1..n of it.
Files == 1..NumFiles

\* for attempt, use_profile in enumerate([(True, ...), (False, ...)], 1)
Attempts == <<TRUE, FALSE>>

\* What Document(path) / the zip traversal make of a package:
\*   good       python-docx opens it and the text is extracted
\*   cxml_text  Document raises "no item named 'customXML/..' in the archive";
\*              the zip traversal finds text
\*   cxml_empty same error; the zip traversal finds or reads nothing
\*   bad        Document raises any other error
DocKinds == {"good", "cxml_text", "cxml_empty", "bad"}

\* os.path.exists(input_path) / input_path.lower().endswith('.docx')
Validations == {"ok", "missing", "notdocx"}

\* process.returncode of a soffice run that exited.
ExitCodes == {0, 1}

VARIABLES
    config,      \* the ConversionConfig of the batch
    files,       \* the paths given to process_files_in_parallel
    base,        \* base[f]: os.path.splitext(os.path.basename(f))[0]; the inputs
                 \* have base names of their own, or (in different directories)
                 \* all the same one
    batchPc,     \* "running" | "returned" | "raised" | "empty"
    semaphore,   \* asyncio.Semaphore: the number of free slots
    pc,          \* per task: "queued" | "conv1" | "conv2" | "post" | "done"
    conv,        \* per job: the frame of its converter call (see NoFrame)
    convResult,  \* per job: "none" | "true" | "false" | "raised"
    profileDir,  \* per job: its temp_profile_dir exists on disk
    leftDirs,    \* per job: a temp_dir of an attempt it has left is still on disk
    procs,       \* the soffice subprocesses now running on the host
    tempDir,     \* texttopo_temp/<base>_converted.docx: 0, or the file it was made from
    results,     \* dict: path -> extracted text
    errors,      \* dict: path -> cause
    outFiles     \* output_dir: <<base, n>> -> text written

\* The functions that are studied one call at a time have a state of their
\* own; it is Unused while the batch runs, and the batch is idle while one of
\* them runs.
VARIABLES
    ext,         \* one call of extract_content (see InitExtract)
    rep,         \* one call of repair_docx_strip_customxml (see InitRepair)
    outDir,      \* the output directory process_file writes to (see InitOutput)
    listing,     \* one call of find_docx_files (see InitFind)
    txt,         \* one call of extract_content on a document (see InitText)
    probe,       \* one call of _find_soffice_executable (see InitProbe)
    clean,       \* one conversion with its cleanups (see InitCleanup)
    tally        \* one call of process_files_in_parallel on a list (see InitTally)

unitVars == <<ext, rep, outDir, listing, txt, probe, clean, tally>>

batchVars == <<config, files, base, batchPc, semaphore, pc, conv, convResult,
               profileDir, leftDirs, procs, tempDir, results, errors, outFiles>>

vars == <<batchVars, unitVars>>

Unused == "unused"

convVars == <<conv, convResult, profileDir, leftDirs, procs, tempDir>>

fileVars == <<results, errors, outFiles>>

\* The locals of convert_docx_via_libreoffice_async:
\*   attempt   the attempt of the for loop (0: not in the loop)
\*   nonzero   the steps (1, 2) that have exited with a code other than 0 in
\*             this call so far (what the LOGGER.error lines have reported)
\*   rc1, rc2  process1.returncode, process2.returncode of this attempt (-1: none)
\*   doc       os.path.exists(doc_path)
\*   workDir   os.path.exists(temp_dir)
NoFrame ==
    [attempt |-> 0, nonzero |-> {}, rc1 |-> -1, rc2 |-> -1, doc |-> FALSE,
     workDir |-> FALSE]

-----------------------------------------------------------------------------
(* Helpers on dicts                                                        *)

EmptyDict == [x \in {} |-> 0]

Put(d, k, v) == [x \in (DOMAIN d) \cup {k} |-> IF x = k THEN v ELSE d[x]]

-----------------------------------------------------------------------------
(* Initial state: process_files_in_parallel has been called                *)

\* What output_dir holds when the batch starts: <base><ext> of base name 1,
\* written by an earlier run from a file that is not of this batch (0). The
\* names of the other base names are free.
EarlierOutput == [k \in {<<1, 0>>} |-> <<0, "original", "docx">>]

Init ==
    /\ config \in [concurrency_limit : 1..MaxConcurrency,
                   enable_libreoffice : BOOLEAN,
                   overwrite_existing : {FALSE}]
    /\ \E n \in 0..NumFiles : files = 1..n
    /\ \E same \in BOOLEAN :
         /\ same => Cardinality(files) > 1
         /\ base = [f \in Files |-> IF same THEN 1 ELSE f]
    /\ batchPc = "running"
    /\ semaphore = config.concurrency_limit
    /\ pc = [f \in Files |-> IF f \in files THEN "queued" ELSE "done"]
    /\ conv = [f \in Files |-> NoFrame]
    /\ convResult = [f \in Files |-> "none"]
    /\ profileDir = [f \in Files |-> FALSE]
    /\ leftDirs = [f \in Files |-> FALSE]
    /\ procs = {}
    /\ tempDir = [b \in Files |-> 0]
    /\ results = EmptyDict
    /\ errors = EmptyDict
    /\ outFiles = EarlierOutput
    /\ ext = Unused /\ rep = Unused /\ outDir = Unused /\ listing = Unused
    /\ txt = Unused /\ probe = Unused /\ clean = Unused /\ tally = Unused

-----------------------------------------------------------------------------
(* convert_docx_via_libreoffice_async                                      *)

\* use_custom_profile of attempt a (the for loop's tuple).
UseCustomProfile(a) == Attempts[a]

\* The user profile a soffice run of job f, attempt a, works on: the job's own
\* temp_profile_dir (-env:UserInstallation=...), named by the job, or, with no
\* such argument, the user's default profile, named 0, shared by every run.
ProfileOf(f, a) == IF UseCustomProfile(a) THEN f ELSE 0

\* A running soffice subprocess of job f, launched in attempt a (at most one
\* of an attempt runs at a time: step 2 starts after step 1 has exited).
\* timedOut: asyncio.wait_for gave up on it.
Proc(f, a) ==
    [job |-> f, att |-> a, profile |-> ProfileOf(f, a), timedOut |-> FALSE]

\* The subprocess job f is waiting for in communicate().
Awaited(f) == Proc(f, conv[f].attempt)

\* Faulty variant of Step1Failed: the exit code of step 1 is not looked at.
Step1NeverFailed(rc) == FALSE

\* if process1.returncode != 0
Step1Failed(rc) == rc # 0

\* Faulty variant of Step2Failed: the exit code of step 2 is not looked at.
Step2NeverFailed(rc) == FALSE

\* if process2.returncode != 0
Step2Failed(rc) == rc # 0

\* The for loop has another approach to try after attempt a.
HasNextAttempt(a) == a < Len(Attempts)

\* What asyncio.wait_for leaves of subprocess p when the timeout expires: the
\* communicate() task is cancelled and nothing terminates the process.
AfterTimeout(p) == {[p EXCEPT !.timedOut = TRUE]}

\* The converter returns res to its caller with the frame fr. The finally
\* clause of the attempt has removed the temp_profile_dir (shutil.rmtree).
ConvReturn(f, res, fr, ps, td) ==
    /\ pc' = [pc EXCEPT ![f] = "post"]
    /\ conv' = [conv EXCEPT ![f] = fr]
    /\ convResult' = [convResult EXCEPT ![f] = res]
    /\ profileDir' = [profileDir EXCEPT ![f] = FALSE]
    /\ procs' = ps
    /\ tempDir' = td
    /\ UNCHANGED leftDirs

\* Attempt 2 up to its first suspension, after an attempt 1 that ended in the
\* frame fr. The finally clause of attempt 1 has removed the profile
\* directory; its temp_dir, if soffice made it again, stays behind. There is
\* no profile directory now; the working directory is created, process1 is
\* launched, and the with block ends, which removes the working directory
\* again. An exception on the way (raises) is caught (except Exception:
\* continue), which ends the loop: return False.
BeginAttempt2(f, fr, ps) ==
    LET fresh == [NoFrame EXCEPT !.attempt = 2, !.nonzero = fr.nonzero] IN
    /\ leftDirs' = [leftDirs EXCEPT ![f] = @ \/ fr.workDir]
    /\ profileDir' = [profileDir EXCEPT ![f] = FALSE]
    /\ conv' = [conv EXCEPT ![f] = fresh]
    /\ UNCHANGED tempDir
    /\ \E raises \in BOOLEAN :
        IF ~raises
        THEN /\ pc' = [pc EXCEPT ![f] = "conv1"]
             /\ procs' = ps \cup {Proc(f, 2)}
             /\ UNCHANGED convResult
        ELSE /\ pc' = [pc EXCEPT ![f] = "post"]
             /\ procs' = ps
             /\ convResult' = [convResult EXCEPT ![f] = "false"]

\* continue, in the frame fr of the attempt that is over: the next approach,
\* or the end of the loop and return False.
NextApproach(f, fr, ps) ==
    IF HasNextAttempt(fr.attempt)
    THEN BeginAttempt2(f, fr, ps)
    ELSE ConvReturn(f, "false", fr, ps, tempDir)

\* The converter from its call to its first suspension.
\*   not_found       _find_soffice_executable returned None: return False
\*   mkdtemp_raises  tempfile.mkdtemp raised (it is outside every try)
\*   init_failed     the profile could not be initialised (removed, continue),
\*                   or an exception inside the try before process1 was
\*                   launched (except Exception: continue)
BeginConversion(f) ==
    \E setup \in {"ok", "not_found", "mkdtemp_raises", "init_failed"} :
        \/ /\ setup = "ok"
           /\ pc' = [pc EXCEPT ![f] = "conv1"]
           /\ conv' = [conv EXCEPT ![f] = [NoFrame EXCEPT !.attempt = 1]]
           /\ profileDir' = [profileDir EXCEPT ![f] = TRUE]
           /\ procs' = procs \cup {Proc(f, 1)}
           /\ UNCHANGED <<convResult, leftDirs, tempDir>>
        \/ /\ setup = "not_found"
           /\ ConvReturn(f, "false", NoFrame, procs, tempDir)
        \/ /\ setup = "mkdtemp_raises"
           /\ ConvReturn(f, "raised", [NoFrame EXCEPT !.attempt = 1], procs, tempDir)
        \/ /\ setup = "init_failed"
           /\ BeginAttempt2(f, [NoFrame EXCEPT !.attempt = 1], procs)

\* stdout1, stderr1 = await asyncio.wait_for(process1.communicate(), timeout)
\* and what follows it up to the next suspension. soffice runs with an
\* --outdir the with block has already removed: where it writes <base>.doc
\* all the same (wrote), the directory is on disk again.
WaitStep1(f) ==
    /\ pc[f] = "conv1"
    /\ \A g \in Files : pc[g] # "post"
    /\ LET fr == conv[f]
           p  == Awaited(f)
           ps == procs \ {p}
       IN
       \/ \* asyncio.TimeoutError: continue
          NextApproach(f, fr, ps \cup AfterTimeout(p))
       \/ \E rc \in ExitCodes :
            LET got == [fr EXCEPT !.rc1 = rc] IN
            IF Step1Failed(rc)
            THEN \* return False
                 ConvReturn(f, "false", [got EXCEPT !.nonzero = @ \cup {1}], ps, tempDir)
            ELSE \E wrote \in BOOLEAN :
                 IF ~wrote
                 THEN \* DOC file not created: continue
                      NextApproach(f, got, ps)
                 ELSE LET made == [got EXCEPT !.doc = TRUE, !.workDir = TRUE] IN
                      \E raises \in BOOLEAN :
                      IF ~raises
                      THEN \* process2 is launched
                           /\ pc' = [pc EXCEPT ![f] = "conv2"]
                           /\ conv' = [conv EXCEPT ![f] = made]
                           /\ procs' = ps \cup {Proc(f, fr.attempt)}
                           /\ UNCHANGED <<convResult, profileDir, leftDirs, tempDir>>
                      ELSE \* except Exception: continue
                           NextApproach(f, made, ps)
    /\ UNCHANGED <<unitVars, config, files, base, batchPc, semaphore, fileVars>>

\* stdout2, stderr2 = await asyncio.wait_for(process2.communicate(), timeout)
\* and what follows it: steps 3 and 4, and the return.
WaitStep2(f) ==
    /\ pc[f] = "conv2"
    /\ \A g \in Files : pc[g] # "post"
    /\ LET fr == conv[f]
           p  == Awaited(f)
           ps == procs \ {p}
       IN
       \/ \* asyncio.TimeoutError: continue
          NextApproach(f, fr, ps \cup AfterTimeout(p))
       \/ \E rc \in ExitCodes :
            LET got == [fr EXCEPT !.rc2 = rc] IN
            IF Step2Failed(rc)
            THEN \* continue
                 NextApproach(f, [got EXCEPT !.nonzero = @ \cup {2}], ps)
            ELSE \E wrote \in BOOLEAN :
                 IF ~wrote
                 THEN \* os.remove(doc_path); Converted file not found, or
                      \* shutil.copy2 raised: continue
                      NextApproach(f, [got EXCEPT !.doc = FALSE], ps)
                 ELSE \* os.remove(doc_path); shutil.copy2(converted_docx,
                      \* output_docx_path); return True
                      ConvReturn(f, "true", [got EXCEPT !.doc = FALSE], ps,
                                 [tempDir EXCEPT ![base[f]] = f])
    /\ UNCHANGED <<unitVars, config, files, base, batchPc, semaphore, fileVars>>

\* A subprocess nobody waits for any more ends by itself.
OrphanExit(p) ==
    /\ p \in procs
    /\ p.timedOut
    /\ procs' = procs \ {p}
    /\ UNCHANGED <<unitVars, config, files, base, batchPc, semaphore, pc, conv, convResult,
                   profileDir, leftDirs, tempDir, fileVars>>

-----------------------------------------------------------------------------
(* extract_content and process_file                                        *)

\* extract_content(path) on a package of kind k holding the text of file src.
\* The text is <<src, path, strategy>>; the empty text "" is <<>>.
\*   Document(docx_path) opens the package: the structured extraction;
\*   it raises with "customXML" and "archive" in the message:
\*     return _extract_with_zipfile_fallback(docx_path), which returns the text
\*     it finds and "" when it finds none or fails;
\*   it raises anything else: raise e.
ExtractContent(k, src, path) ==
    CASE k = "good"       -> [raised |-> FALSE, text |-> <<src, path, "docx">>]
      [] k = "cxml_text"  -> [raised |-> FALSE, text |-> <<src, path, "zip">>]
      [] k = "cxml_empty" -> [raised |-> FALSE, text |-> <<>>]
      [] OTHER            -> [raised |-> TRUE, text |-> <<>>]

\* temp_dir = config.get_temp_dir_path(): <cwd>/<temp_dir_name>, the same
\* directory (named 0) for every job, and for every run started in that cwd.
TempDirPath(f) == 0

\* converted_docx_path = os.path.join(temp_dir, f"{base_name}_converted.docx")
ConvertedDocxPath(f) == <<TempDirPath(f), base[f]>>


\* if conversion_success and os.path.exists(converted_docx_path)
ExtractionPath(success, exists) ==
    IF success /\ exists THEN "converted" ELSE "original"

\* while os.path.exists(output_file):
\*     output_file = os.path.join(output_dir, f"{base_name}_{counter}{ext}")
\*     counter += 1
RECURSIVE WhileExists(_, _, _, _)
WhileExists(b, existing, output_file, counter) ==
    IF output_file \in existing
    THEN WhileExists(b, existing, <<b, counter>>, counter + 1)
    ELSE output_file

\* Faulty variant of OutputFile: the default name is taken whatever exists.
OutputFileDefault(b, existing, overwrite) == <<b, 0>>

\* Faulty variant of OutputFile: <base>_1<ext> is taken without a look at
\* what exists.
OutputFileFirstSuffix(b, existing, overwrite) ==
    IF <<b, 0>> \in existing /\ ~overwrite THEN <<b, 1>> ELSE <<b, 0>>

\* The output file process_file writes for base name b: <<b, 0>> is
\* <base><ext>, <<b, n>> is <base>_<n><ext>.
OutputFile(b, existing, overwrite) ==
    IF <<b, 0>> \in existing /\ ~overwrite
    THEN WhileExists(b, existing, <<b, 0>>, 1)
    ELSE <<b, 0>>

\* Job f is in its conversion stage: process_file has called the converter
\* (if config.enable_libreoffice: conversion_success = await ...) and the
\* call has not returned. Nothing is acquired before the call and nothing is
\* released after it.
InConversionStage(f) == pc[f] \in {"conv1", "conv2"}


\* Faulty variant of CanAcquire: a task never waits for a slot.
AlwaysAcquire == TRUE

\* async with semaphore: a slot is free.
CanAcquire == semaphore > 0

\* The task of f is the next to get a slot: asyncio.gather starts the tasks in
\* the order of the list, and a Semaphore wakes its waiters first come, first
\* served.
NextInLine(f) == \A g \in files : g < f => pc[g] # "queued"

\* Faulty variant of RecordError: the cause is filed under the first path of
\* the batch, whichever task failed.
RecordErrorUnderFirst(f, cause) == errors' = Put(errors, 1, cause)

\* except Exception as e: errors[file_path] = str(e)
RecordError(f, cause) == errors' = Put(errors, f, cause)

\* results[file_path] = extracted_text
RecordResult(f, text) == results' = Put(results, f, text)

\* A task of process_with_semaphore gets its slot and runs process_file up to
\* its first suspension: the validation of the input, then either the call of
\* the converter or, with the conversion disabled, nothing.
TaskStart(f) ==
    /\ batchPc = "running"
    /\ pc[f] = "queued"
    /\ NextInLine(f)
    /\ CanAcquire
    /\ \A g \in Files : pc[g] # "post"
    /\ \E v \in Validations :
         IF v # "ok"
         THEN \* FileNotFoundError / ValueError: caught by the task, slot released
              /\ RecordError(f, <<v>>)
              /\ pc' = [pc EXCEPT ![f] = "done"]
              /\ UNCHANGED <<semaphore, convVars, results, outFiles>>
         ELSE /\ semaphore' = semaphore - 1
              /\ IF config.enable_libreoffice
                 THEN BeginConversion(f)
                 ELSE /\ pc' = [pc EXCEPT ![f] = "post"]
                      /\ UNCHANGED convVars
              /\ UNCHANGED fileVars
    /\ UNCHANGED <<unitVars, config, files, base, batchPc>>

\* process_file after the converter came back, to its end, and the end of the
\* task: the choice of the file to extract from, the extraction, the output
\* file, the finally clause (the converted file is removed), the entry in
\* results or errors, and the release of the slot. The converter's locals
\* (attempt, returncodes, paths) are gone with its frame.
ProcessFilePost(f) ==
    /\ pc[f] = "post"
    /\ pc' = [pc EXCEPT ![f] = "done"]
    /\ semaphore' = semaphore + 1
    /\ tempDir' = [tempDir EXCEPT ![base[f]] = 0]
    /\ IF convResult[f] = "raised"
       THEN /\ RecordError(f, <<"conversion">>)
            /\ UNCHANGED <<results, outFiles>>
       ELSE \E k \in DocKinds :
              LET path == ExtractionPath(convResult[f] = "true", tempDir[base[f]] # 0)
                  src  == IF path = "converted" THEN tempDir[base[f]] ELSE f
                  ex   == ExtractContent(k, src, path)
                  out  == OutputFile(base[f], DOMAIN outFiles, config.overwrite_existing)
              IN
              /\ IF ex.raised
                 THEN /\ RecordError(f, <<"extraction", path>>)
                      /\ UNCHANGED <<results, outFiles>>
                 ELSE /\ RecordResult(f, ex.text)
                      /\ outFiles' = Put(outFiles, out, ex.text)
                      /\ UNCHANGED errors
    /\ conv' = [conv EXCEPT ![f] = NoFrame]
    /\ leftDirs' = [leftDirs EXCEPT ![f] = @ \/ conv[f].workDir]
    /\ UNCHANGED <<unitVars, config, files, base, batchPc, profileDir, procs, convResult>>

-----------------------------------------------------------------------------
(* process_files_in_parallel                                               *)

\* if not files: return {}
BatchEmpty ==
    /\ batchPc = "running"
    /\ files = {}
    /\ batchPc' = "empty"
    /\ UNCHANGED <<unitVars, config, files, base, semaphore, pc, convVars, fileVars>>

\* if not results: raise Exception("All files failed to process")
BatchOutcome(res) == IF DOMAIN res = {} THEN "raised" ELSE "returned"

\* asyncio.gather has returned: every task is over.
BatchFinish ==
    /\ batchPc = "running"
    /\ files # {}
    /\ \A f \in files : pc[f] = "done"
    /\ batchPc' = BatchOutcome(results)
    /\ UNCHANGED <<unitVars, config, files, base, semaphore, pc, convVars, fileVars>>

\* What process_files_in_parallel hands to its caller: return results (the
\* dict path -> text), or Exception("All files failed to process"), which
\* carries that sentence and nothing else. success_count, error_count and the
\* errors dict are locals: they are logged and dropped.
BatchReturn ==
    [raised |-> batchPc = "raised",
     value  |-> IF batchPc = "raised" THEN EmptyDict ELSE results]


-----------------------------------------------------------------------------

Next ==
    \/ \E f \in Files : TaskStart(f)
    \/ \E f \in Files : WaitStep1(f)
    \/ \E f \in Files : WaitStep2(f)
    \/ \E f \in Files : ProcessFilePost(f)
    \/ \E p \in procs : OrphanExit(p)
    \/ BatchEmpty
    \/ BatchFinish

Spec == Init /\ [][Next]_vars

-----------------------------------------------------------------------------
(* extract_content, one call on one package                                *)

\* The batch while a single function is studied: no call of
\* process_files_in_parallel is under way.
BatchIdle ==
    /\ config = [concurrency_limit |-> 1, enable_libreoffice |-> FALSE,
                 overwrite_existing |-> FALSE]
    /\ files = {}
    /\ base = [f \in Files |-> f]
    /\ batchPc = "idle"
    /\ semaphore = 1
    /\ pc = [f \in Files |-> "done"]
    /\ conv = [f \in Files |-> NoFrame]
    /\ convResult = [f \in Files |-> "none"]
    /\ profileDir = [f \in Files |-> FALSE]
    /\ leftDirs = [f \in Files |-> FALSE]
    /\ procs = {}
    /\ tempDir = [b \in Files |-> 0]
    /\ results = EmptyDict
    /\ errors = EmptyDict
    /\ outFiles = EmptyDict

\* What Document(docx_path) does with a package:
\*   ok          it opens
\*   customXML   KeyError "There is no item named 'customXML/item1.xml' in the
\*               archive": a relationship points to a part that is not there
\*   customXml   the same for a target spelled customXml/ (the spelling Word
\*               writes)
\*   other_part  the same for a missing part of another kind
\*   not_zip     the file is not a zip package: PackageNotFoundError
\*               "Package not found at '<docx_path>'"
\*   not_zip_named
\*               the same for a docx_path that has the words customXML and
\*               archive in it
OpenOutcomes ==
    {"ok", "customXML", "customXml", "other_part", "not_zip", "not_zip_named"}

\* The failures of Document() on a file that is no zip package.
NotZip == {"not_zip", "not_zip_named"}

\* The failures of Document() that come from a relationship to a missing part.
Dangling == {"customXML", "customXml", "other_part"}

\* str(e): the words of the message the code looks for.
ErrorMsg(o) ==
    CASE o = "customXML"  -> {"customXML", "archive"}
      [] o = "customXml"  -> {"customXml", "archive"}
      [] o = "other_part" -> {"archive"}
      [] o = "not_zip_named" -> {"Package", "customXML", "archive"}
      [] o = "not_zip"    -> {"Package"}
      [] OTHER            -> {}

\* if "customXML" in error_msg and "archive" in error_msg
IsCustomXmlError(msg) == "customXML" \in msg /\ "archive" \in msg

\* A part of the package (the header, word/document.xml, the footer):
\*   absent  not in the package (for a header or footer: linked to previous)
\*   text    it holds text
\*   empty   it holds no text
\*   bad     it is in the archive and its XML cannot be parsed
PartStates == {"absent", "text", "empty", "bad"}

\* The packages: a package python-docx opens has a body and no unparsable
\* part; a file that is no zip has no parts.
Packages ==
    {p \in [open : OpenOutcomes, hdr : PartStates, body : PartStates, ftr : PartStates] :
        /\ p.open = "ok" =>
              /\ p.body \in {"text", "empty"}
              /\ p.hdr # "bad" /\ p.ftr # "bad"
        /\ p.open \in NotZip =>
              p.hdr = "absent" /\ p.body = "absent" /\ p.ftr = "absent"}

\* The lines a part gives: its text (one line, tok), or nothing.
PartLines(st, tok) == IF st = "text" THEN <<tok>> ELSE <<>>

\* '\n'.join(lines), as the list of the lines of the string: the join of
\* a single empty line is the empty string, as is the join of no line.
Join(lines) == IF lines = <<"">> THEN <<>> ELSE lines

RECURSIVE StripLeft(_)
StripLeft(lines) ==
    IF lines # <<>> /\ Head(lines) = "" THEN StripLeft(Tail(lines)) ELSE lines

RECURSIVE StripRight(_)
StripRight(lines) ==
    IF lines # <<>> /\ lines[Len(lines)] = ""
    THEN StripRight(SubSeq(lines, 1, Len(lines) - 1))
    ELSE lines

\* str.strip() of a joined text: the empty lines at both ends go.
Strip(lines) == StripRight(StripLeft(lines))

\* The structured extraction of an opened document: the headers, a blank
\* line if they gave text, the body, and, if there is a footer, a blank line
\* and the footer.
StructuredText(p) ==
    LET h == PartLines(p.hdr, "H")
        s == IF h # <<>> THEN <<"">> ELSE <<>>
        b == PartLines(p.body, "B")
        f == IF p.ftr = "absent" THEN <<>> ELSE <<"">> \o PartLines(p.ftr, "F")
    IN Join(h \o s \o b \o f)

\* The parts _extract_with_zipfile_fallback could not parse and went on
\* without (extract_text_from_xml: except Exception: return []).
ZipSkipped(p) ==
    {n \in {"hdr", "body", "ftr"} :
        \/ n = "hdr" /\ p.hdr = "bad"
        \/ n = "body" /\ p.body = "bad"
        \/ n = "ftr" /\ p.ftr = "bad"}

\* _extract_with_zipfile_fallback gives up: the archive cannot be opened, or
\* it has no word/document.xml (KeyError), and "" is returned.
ZipFails(p) == p.open \in NotZip \/ p.body = "absent"

\* The text _extract_with_zipfile_fallback returns.
ZipText(p) ==
    IF ZipFails(p) THEN <<>>
    ELSE LET h == PartLines(p.hdr, "H")
             s == IF h # <<>> THEN <<"">> ELSE <<>>
             b == PartLines(p.body, "B")
             f == IF p.ftr = "absent" THEN <<>> ELSE <<"">> \o PartLines(p.ftr, "F")
         IN Strip(Join(h \o s \o b \o f))

\* No outcome yet.
Pending == [raised |-> FALSE, text |-> <<>>, cause |-> "pending"]

\* extract_content(docx_path) is called on a package.
\*   calls     the strategies invoked so far, in order
\*   failures  the causes of the strategies that failed, in order
\*   skipped   the parts that could not be parsed and were left out
InitExtract ==
    /\ BatchIdle
    /\ \E p \in Packages :
         ext = [pkg |-> p, pc |-> "open", calls |-> <<>>, failures |-> <<>>,
                skipped |-> {}, outcome |-> Pending]
    /\ rep = Unused /\ outDir = Unused /\ listing = Unused
    /\ txt = Unused /\ probe = Unused /\ clean = Unused /\ tally = Unused

\* document = Document(docx_path), and the except branch around it.
ExtractOpen ==
    /\ ext.pc = "open"
    /\ LET o == ext.pkg.open
           called == [ext EXCEPT !.calls = Append(@, "structured")]
       IN
       IF o = "ok"
       THEN ext' = [called EXCEPT !.pc = "structured"]
       ELSE LET failed == [called EXCEPT !.failures = Append(@, o)] IN
            IF IsCustomXmlError(ErrorMsg(o))
            THEN \* return _extract_with_zipfile_fallback(docx_path)
                 ext' = [failed EXCEPT !.pc = "zip"]
            ELSE \* raise e, and the outer except: raise
                 ext' = [failed EXCEPT !.pc = "done",
                                       !.outcome = [raised |-> TRUE, text |-> <<>>,
                                                    cause |-> o]]
    /\ UNCHANGED <<batchVars, rep, outDir, listing, txt, probe, clean, tally>>

\* The rest of extract_content on the opened document.
ExtractStructured ==
    /\ ext.pc = "structured"
    /\ ext' = [ext EXCEPT !.pc = "done",
                          !.outcome = [raised |-> FALSE,
                                       text |-> StructuredText(ext.pkg),
                                       cause |-> "none"]]
    /\ UNCHANGED <<batchVars, rep, outDir, listing, txt, probe, clean, tally>>

\* _extract_with_zipfile_fallback(docx_path): whatever happens in it, it
\* returns a string, and extract_content returns that string.
ExtractZipFallback ==
    /\ ext.pc = "zip"
    /\ ext' = [ext EXCEPT !.pc = "done",
                          !.calls = Append(@, "zip"),
                          !.failures = IF ZipFails(ext.pkg)
                                       THEN Append(@, "zip_failed") ELSE @,
                          !.skipped = IF ZipFails(ext.pkg) THEN {}
                                      ELSE ZipSkipped(ext.pkg),
                          !.outcome = [raised |-> FALSE,
                                       text |-> ZipText(ext.pkg),
                                       cause |-> "none"]]
    /\ UNCHANGED <<batchVars, rep, outDir, listing, txt, probe, clean, tally>>

NextExtract ==
    \/ ExtractOpen
    \/ ExtractStructured
    \/ ExtractZipFallback

SpecExtract == InitExtract /\ [][NextExtract]_vars

-----------------------------------------------------------------------------
(* repair_docx_strip_customxml, one call                                   *)

\* The largest number of Relationship entries of word/_rels/document.xml.rels.
MaxEntries == 2

\* The names of zip members, as their path segments.
ContentTypesName == <<"[Content_Types].xml">>
RootRelsName == <<"_rels", ".rels">>
BodyName == <<"word", "document.xml">>
DocRelsName == <<"word", "_rels", "document.xml.rels">>
AuxName == <<"customXml", "item1.xml">>
AuxUpperName == <<"CUSTOMXML", "item9.xml">>

\* str.lower() of a path segment.
Lower(seg) == IF seg \in {"customXml", "CUSTOMXML"} THEN "customxml" ELSE seg

\* _should_skip_member: name.lower().startswith("customxml/")
ShouldSkipMember(name) == Len(name) > 1 /\ Lower(name[1]) = "customxml"

\* name.endswith(".rels") and ("/_rels/" in name or
\* name.endswith("_rels/.rels") or name == "_rels/.rels")
IsRelsName(name) ==
    /\ name[Len(name)] \in {".rels", "document.xml.rels", "item1.xml.rels"}
    /\ \/ \E i \in 2..(Len(name) - 1) : name[i] = "_rels"
       \/ Len(name) > 1 /\ name[Len(name)] = ".rels" /\ name[Len(name) - 1] = "_rels"

\* name == "[Content_Types].xml"
IsContentTypesName(name) == name = ContentTypesName

\* A Relationship entry of a manifest, by the form of its Target and the
\* quotes around it:
\*   relative  Target="customXml/item1.xml"
\*   parent    Target="../customXml/item1.xml"
\*   absolute  Target="/customXml/item1.xml"
\*   other     Target="styles.xml": a part that is not under customXml/
\*   behind_fragment
\*             an entry Id="r" Target='customXml/x>z' that stands between two
\*             comments, the first holding the beginning of a Relationship
\*             tag and the second its end:
\*             <!-- <Relationship Target="customXml/y>w --><Relationship
\*             Id="r" Target='customXml/x>z'/><!-- "/> -->
\*   fragment  the two comments with nothing between them
PlainForms == {"relative", "parent", "absolute", "other"}

BehindFragment == [form |-> "behind_fragment", quote |-> "sq"]
Fragment == [form |-> "fragment", quote |-> "dq"]

RelEntries == [form : PlainForms, quote : {"dq", "sq"}] \cup {BehindFragment}

\* The forms that are no reference to a part under customXml/.
NoAuxForms == {"other", "fragment"}

\* An Override of [Content_Types].xml: PartName="/customXml/itemProps1.xml"
\* (aux) or PartName="/word/document.xml" (doc), in either quote style.
Overrides == {[part |-> "aux", quote |-> "dq"], [part |-> "aux", quote |-> "sq"],
              [part |-> "doc", quote |-> "dq"]}

\* The two regular expressions of _filter_relationships match an entry whose
\* Target starts with customXml/ or ../customXml/, in double or in single
\* quotes. [^>]* keeps a match inside one tag, and [^"]* lets the Target of
\* the first comment of a fragment run on to the next double quote: with the
\* entry between the comments there, that quote is the one of Id="r" and the
\* match fails at x>z, and the second pattern matches the entry itself; with
\* nothing between them, the quote is the one of the second comment and the
\* first pattern matches from the first comment to the "/>" of the second.
RelPatternMatches(e) == e.form \in {"relative", "parent", "behind_fragment", "fragment"}

\* What the deletion of a matched entry leaves in its place.
RelLeft(e) == IF e = BehindFragment THEN {Fragment} ELSE {}

\* The regular expression of _filter_content_types matches
\* PartName="/customXml/..." in double quotes.
OverridePatternMatches(o) == o.part = "aux" /\ o.quote = "dq"

\* xml_bytes.decode("utf-8", errors="ignore") ... .encode("utf-8") around a
\* substitution that deletes the entries a pattern matches (matched) and
\* leaves what stood around them (left). The bytes
\* of a manifest are its encoding and its entries; of a manifest in UTF-16
\* the decoding drops the byte order mark and finds no entry to delete: the
\* bytes that come out are neither the input nor well-formed XML (mangled).
FilterManifest(data, matched, left) ==
    IF data.enc = "utf8"
    THEN [data EXCEPT !.entries = (@ \ matched) \cup left]
    ELSE [data EXCEPT !.enc = "mangled"]

\* _filter_relationships
FilterRelationships(data) ==
    LET matched == {e \in data.entries : RelPatternMatches(e)} IN
    FilterManifest(data, matched, UNION {RelLeft(e) : e \in matched})

\* _filter_content_types
FilterContentTypes(data) ==
    FilterManifest(data, {o \in data.entries : OverridePatternMatches(o)}, {})

\* The body of the for loop for a member that is not skipped.
RepairMember(m) ==
    LET d1 == IF IsRelsName(m.name) THEN FilterRelationships(m.data) ELSE m.data
        d2 == IF IsContentTypesName(m.name) THEN FilterContentTypes(d1) ELSE d1
    IN [name |-> m.name, data |-> d2]

\* for info in zin.infolist(): ... zout.writestr(name, data)
RECURSIVE RepairMembers(_)
RepairMembers(ms) ==
    IF ms = <<>> THEN <<>>
    ELSE IF ShouldSkipMember(Head(ms).name)
         THEN RepairMembers(Tail(ms))
         ELSE <<RepairMember(Head(ms))>> \o RepairMembers(Tail(ms))

\* The plain bytes of a part that is no manifest.
Bytes(b) == [enc |-> "raw", entries |-> {b}]

\* The packages given to the repair: the content types, the root
\* relationships, the body, the relationships of the body, and, present or
\* missing, two parts under customXml/ (one in another case).
InputPackages ==
    {<<[name |-> ContentTypesName, data |-> [enc |-> "utf8", entries |-> ov]],
       [name |-> RootRelsName,
        data |-> [enc |-> "utf8", entries |-> {[form |-> "other", quote |-> "dq"]}]],
       [name |-> BodyName, data |-> Bytes(b)],
       [name |-> DocRelsName, data |-> [enc |-> e, entries |-> rs]]>>
     \o (IF aux THEN <<[name |-> AuxName, data |-> Bytes("X")]>> ELSE <<>>)
     \o (IF upper THEN <<[name |-> AuxUpperName, data |-> Bytes("X")]>> ELSE <<>>) :
        ov \in SUBSET Overrides, b \in {"B1", "B2"}, e \in {"utf8", "utf16"},
        rs \in {r \in SUBSET RelEntries : Cardinality(r) <= MaxEntries},
        aux \in BOOLEAN, upper \in BOOLEAN}

\* A path of the disk: no file, or a file holding a package.
NoFile == [exists |-> FALSE, pkg |-> <<>>]
File(p) == [exists |-> TRUE, pkg |-> p]

\* repair_docx_strip_customxml(input_docx_path, output_docx_path) is called.
\*   sameOut  output_docx_path is input_docx_path
\*   inFile   the file at input_docx_path, before the call and now
\*   outFile  the file at output_docx_path where it is another path
\*   tmpFile  the NamedTemporaryFile
\*   removeFailed
\*            os.remove(temp_out_path) of the except clause raised
InitRepair ==
    /\ BatchIdle
    /\ \E given \in {NoFile} \cup {File(p) : p \in InputPackages},
          same \in BOOLEAN, old \in {NoFile, File(<<>>)} :
         /\ same => old = NoFile
         /\ ~given.exists => ~same
         /\ rep = [given |-> given, sameOut |-> same, before |-> old,
                   inFile |-> given, outFile |-> old, tmpFile |-> NoFile,
                   removeFailed |-> FALSE, pc |-> "start", returned |-> "none"]
    /\ ext = Unused /\ outDir = Unused /\ listing = Unused
    /\ txt = Unused /\ probe = Unused /\ clean = Unused /\ tally = Unused

\* Faulty variant of RepairFails: the except clause leaves the temporary file
\* where it is.
RepairFailsKeepingTemp(rm_raises) == [rep EXCEPT !.pc = "done", !.returned = "False"]

\* return False, at line 58 or after the except clause, which removes the
\* temporary file if there is one; where os.remove raises (rm_raises), the
\* file stays (except Exception: pass).
RepairFails(rm_raises) ==
    LET stays == rep.tmpFile.exists /\ rm_raises IN
    [rep EXCEPT !.pc = "done", !.returned = "False",
                !.removeFailed = stays,
                !.tmpFile = IF stays THEN @ ELSE NoFile]

\* if not os.path.isfile(input_docx_path): return False; the archive is
\* opened (it may be unreadable) and the temporary file is created.
RepairOpen ==
    /\ rep.pc = "start"
    /\ IF ~rep.inFile.exists
       THEN rep' = RepairFails(FALSE)
       ELSE \E readable \in BOOLEAN :
              IF readable
              THEN rep' = [rep EXCEPT !.pc = "copy", !.tmpFile = File(<<>>)]
              ELSE rep' = RepairFails(FALSE)
    /\ UNCHANGED <<batchVars, ext, outDir, listing, txt, probe, clean, tally>>

\* The for loop over zin.infolist(), which may raise on a read or a write.
RepairCopy ==
    /\ rep.pc = "copy"
    /\ \E raises \in BOOLEAN, rm_raises \in BOOLEAN :
         IF raises
         THEN rep' = RepairFails(rm_raises)
         ELSE rep' = [rep EXCEPT !.pc = "replace",
                                 !.tmpFile = File(RepairMembers(rep.inFile.pkg))]
    /\ UNCHANGED <<batchVars, ext, outDir, listing, txt, probe, clean, tally>>

\* os.replace(temp_out_path, output_docx_path); return True
RepairReplace ==
    /\ rep.pc = "replace"
    /\ \E raises \in BOOLEAN, rm_raises \in BOOLEAN :
         IF raises
         THEN rep' = RepairFails(rm_raises)
         ELSE rep' = [rep EXCEPT !.pc = "done", !.returned = "True",
                                 !.tmpFile = NoFile,
                                 !.inFile = IF rep.sameOut THEN rep.tmpFile ELSE @,
                                 !.outFile = IF rep.sameOut THEN @ ELSE rep.tmpFile]
    /\ UNCHANGED <<batchVars, ext, outDir, listing, txt, probe, clean, tally>>

NextRepair ==
    \/ RepairOpen
    \/ RepairCopy
    \/ RepairReplace

SpecRepair == InitRepair /\ [][NextRepair]_vars

\* The package at output_docx_path.
RepairedPackage == IF rep.sameOut THEN rep.inFile.pkg ELSE rep.outFile.pkg

\* The package has a member of this name.
HasMember(p, name) == \E i \in DOMAIN p : p[i].name = name

\* The manifest m holds a reference to a part under customXml/.
RefersToAux(m) ==
    \/ IsRelsName(m.name) /\ \E e \in m.data.entries : e.form \notin NoAuxForms
    \/ IsContentTypesName(m.name) /\ \E o \in m.data.entries : o.part = "aux"

\* Document(path) on a package, as python-docx loads it: every manifest must
\* be well-formed and every part a relationship of the body targets must be
\* in the archive. The text is that of the body.
DocumentOpens(p) ==
    \A i \in DOMAIN p :
        p[i].name = DocRelsName =>
            /\ p[i].data.enc # "mangled"
            /\ \A e \in p[i].data.entries :
                   e.form \notin NoAuxForms => HasMember(p, AuxName)

PrimaryExtract(p) ==
    IF DocumentOpens(p)
    THEN [raised |-> FALSE,
          text |-> {p[i].data : i \in {j \in DOMAIN p : p[j].name = BodyName}}]
    ELSE [raised |-> TRUE, text |-> {}]

\* The package p had its parts under customXml/, and every reference to
\* them, never existed.
RECURSIVE NeverHadAux(_)
NeverHadAux(p) ==
    IF p = <<>> THEN <<>>
    ELSE LET m == Head(p) IN
         IF ShouldSkipMember(m.name) THEN NeverHadAux(Tail(p))
         ELSE <<[name |-> m.name,
                 data |-> IF IsRelsName(m.name)
                          THEN [m.data EXCEPT !.entries = {e \in @ : e.form \in NoAuxForms}]
                          ELSE IF IsContentTypesName(m.name)
                          THEN [m.data EXCEPT !.entries = {o \in @ : o.part # "aux"}]
                          ELSE m.data]>> \o NeverHadAux(Tail(p))

-----------------------------------------------------------------------------
(* process_file, step 3: the output file                                   *)

\* The largest numeric suffix of an output file that is there beforehand.
MaxSuffix == 2

\* The number of texts written to the output directory in a row.
MaxWrites == 2

\* The names an output directory may hold beforehand.
OutputNames == {<<b, n>> : b \in Files, n \in 0..MaxSuffix}

\* No text has been written yet.
NoWrite == [base |-> 0, name |-> <<0, 0>>, existing |-> {}]

\* An output directory with some files in it, and the overwrite setting.
\*   files   the directory now: name -> content
\*   before  the directory at the start
\*   last    the last write: for which base name, to which file, and the
\*           names that were there when it was made
\*   count   the number of writes so far
InitOutput ==
    /\ BatchIdle
    /\ \E names \in SUBSET OutputNames, ow \in BOOLEAN :
         LET d == [x \in names |-> <<"old">>] IN
         outDir = [overwrite |-> ow, files |-> d, before |-> d,
                   last |-> NoWrite, count |-> 0]
    /\ ext = Unused /\ rep = Unused /\ listing = Unused
    /\ txt = Unused /\ probe = Unused /\ clean = Unused /\ tally = Unused

\* Step 3 of process_file for an input of base name b: the name is chosen
\* and the text is written (open(output_file, 'w')).
SaveOutput(b) ==
    /\ outDir.count < MaxWrites
    /\ LET existing == DOMAIN outDir.files
           name == OutputFile(b, existing, outDir.overwrite)
           text == <<"text", outDir.count + 1>>
       IN outDir' = [outDir EXCEPT !.files = Put(@, name, text),
                                   !.last = [base |-> b, name |-> name,
                                             existing |-> existing],
                                   !.count = @ + 1]
    /\ UNCHANGED <<batchVars, ext, rep, listing, txt, probe, clean, tally>>

NextOutput == \E b \in Files : SaveOutput(b)

SpecOutput == InitOutput /\ [][NextOutput]_vars

-----------------------------------------------------------------------------
(* find_docx_files, one call                                               *)

\* A directory entry: rank stands for the place of its name in the order of
\* strings (a smaller rank sorts first), prefix and ext are the start and the
\* end of the name, kind tells a file from a directory.
Entry(r, pre, e, k) == [rank |-> r, prefix |-> pre, ext |-> e, kind |-> k]

\* The entries the searched directory may hold: a.docx, b.DOCX, c.txt, a
\* directory named d.docx, and ~$a.docx.
TopEntries ==
    {Entry(1, "", ".docx", "file"), Entry(2, "", ".DOCX", "file"),
     Entry(3, "", ".txt", "file"), Entry(4, "", ".docx", "dir"),
     Entry(6, "~$", ".docx", "file")}

\* The subdirectory sub/ (rank 5) and the files it may hold: a.docx, n.txt
\* and ~$x.docx.
SubRank == 5
SubEntries ==
    {Entry(1, "", ".docx", "file"), Entry(2, "", ".txt", "file"),
     Entry(3, "~$", ".docx", "file")}

\* file.lower().endswith('.docx') and not file.startswith('~$')
LowerExt(e) == IF e = ".DOCX" THEN ".docx" ELSE e
IsCandidate(e) == LowerExt(e.ext) = ".docx" /\ e.prefix # "~$"

\* os.path.join(root, file), as the ranks of its components below directory.
TopPath(e) == <<e.rank>>
SubPath(e) == <<SubRank, e.rank>>

\* The order of strings on paths: component by component.
PathLess(p, q) ==
    \E i \in 1..(Len(p) + 1) :
        /\ \A j \in 1..(i - 1) : j <= Len(q) /\ p[j] = q[j]
        /\ \/ i <= Len(p) /\ i <= Len(q) /\ p[i] < q[i]
           \/ i = Len(p) + 1 /\ i <= Len(q)

\* docx_files as a list, in the order the entries happened to be listed.
RECURSIVE AsList(_)
AsList(S) ==
    IF S = {} THEN <<>>
    ELSE LET x == CHOOSE y \in S : TRUE IN <<x>> \o AsList(S \ {x})

\* The paths the recursive branch collects: os.walk gives, for the directory
\* and for each directory below it, the entries that are not directories.
WalkPaths(t) ==
    {TopPath(e) : e \in {x \in t.top : x.kind = "file" /\ IsCandidate(x)}}
    \cup (IF t.hasSub THEN {SubPath(e) : e \in {x \in t.sub : IsCandidate(x)}} ELSE {})

\* The paths the other branch collects: os.listdir gives every entry of the
\* directory, files and directories alike.
ListdirPaths(t) == {TopPath(e) : e \in {x \in t.top : IsCandidate(x)}}

\* find_docx_files(directory, recursive)
FindDocxFiles(t, recursive) ==
    IF ~t.exists THEN <<>>
    ELSE SortSeq(AsList(IF recursive THEN WalkPaths(t) ELSE ListdirPaths(t)), PathLess)

\* NoResult: find_docx_files has not returned.
NoResult == <<<<0>>>>

\* find_docx_files is called on a directory that exists, with some of the
\* entries, or on a path that does not exist.
InitFind ==
    /\ BatchIdle
    /\ \E top \in SUBSET TopEntries, sub \in SUBSET SubEntries,
          hasSub \in BOOLEAN, exists \in BOOLEAN, recursive \in BOOLEAN :
         /\ ~hasSub => sub = {}
         /\ ~exists => top = {} /\ ~hasSub
         /\ listing = [tree |-> [exists |-> exists, top |-> top, hasSub |-> hasSub,
                                 sub |-> sub],
                       recursive |-> recursive, pc |-> "called", result |-> NoResult]
    /\ ext = Unused /\ rep = Unused /\ outDir = Unused
    /\ txt = Unused /\ probe = Unused /\ clean = Unused /\ tally = Unused

\* The call runs and returns its list.
FindReturn ==
    /\ listing.pc = "called"
    /\ listing' = [listing EXCEPT !.pc = "returned",
                                  !.result = FindDocxFiles(listing.tree, listing.recursive)]
    /\ UNCHANGED <<batchVars, ext, rep, outDir, txt, probe, clean, tally>>

NextFind == FindReturn

SpecFind == InitFind /\ [][NextFind]_vars

-----------------------------------------------------------------------------
(* The text of a document: extract_content (DOCXExtractor.py),             *)
(* extract_content_with_python_docx (ExtractText.py) and the traversal of  *)
(* word/document.xml by _extract_with_zipfile_fallback, one call each on   *)
(* one document                                                            *)

\* The longest text of a paragraph that is tried.
MaxLen == 5

\* The largest table that is tried.
MaxRows == 2
MaxCols == 2

\* The largest number of sections of a document that is tried.
MaxSections == 2

\* A string is the sequence of its characters: two letters, the blank, the
\* braces; the tab is the character cells are joined with.
Tab == "\t"
Chars == {"a", "b", " ", "{", "}"}

\* What str.strip() removes and the \s of a regular expression matches.
IsSpace(c) == c \in {" ", Tab}

\* str.lstrip() / str.rstrip() / str.strip()
RECURSIVE LStrip(_)
LStrip(s) == IF s # <<>> /\ IsSpace(Head(s)) THEN LStrip(Tail(s)) ELSE s

RECURSIVE RStrip(_)
RStrip(s) ==
    IF s # <<>> /\ IsSpace(s[Len(s)]) THEN RStrip(SubSeq(s, 1, Len(s) - 1)) ELSE s

StrStrip(s) == RStrip(LStrip(s))

\* "\t".join(row_text)
RECURSIVE TabJoin(_)
TabJoin(row_text) ==
    IF row_text = <<>> THEN <<>>
    ELSE IF Len(row_text) = 1 THEN row_text[1]
    ELSE row_text[1] \o <<Tab>> \o TabJoin(Tail(row_text))

\* The position after the run of spaces of s that starts at i (\s*, which
\* takes as many as there are).
RECURSIVE SkipSpaces(_, _)
SkipSpaces(s, i) == IF i <= Len(s) /\ IsSpace(s[i]) THEN SkipSpaces(s, i + 1) ELSE i

\* \s*\} matches s at position i.
ClosesAt(s, i) == LET j == SkipSpaces(s, i) IN j <= Len(s) /\ s[j] = "}"

\* The least e >= from such that \s*\} matches right after e, or 0: where the
\* lazy .*? of the group stops.
RECURSIVE GroupEnd(_, _)
GroupEnd(s, from) ==
    IF from > Len(s) THEN 0
    ELSE IF ClosesAt(s, from + 1) THEN from
    ELSE GroupEnd(s, from + 1)

\* re.compile(r"\{\s*([^{}\s].*?)\s*\}") matched at position i of s: the
\* group and the position after the match, or no match. After "{" and the
\* spaces, the group starts with a character that is no brace and no space.
PlaceholderMatch(s, i) ==
    LET g == SkipSpaces(s, i + 1)
        e == IF g <= Len(s) THEN GroupEnd(s, g) ELSE 0
    IN IF /\ i <= Len(s) /\ s[i] = "{"
          /\ g <= Len(s) /\ s[g] \notin {"{", "}"}
          /\ e # 0
       THEN [found |-> TRUE, group |-> SubSeq(s, g, e),
             next |-> SkipSpaces(s, e + 1) + 1]
       ELSE [found |-> FALSE, group |-> <<>>, next |-> i + 1]

\* placeholder_re.sub(r'\1', s), from position i on: the matches are taken
\* from left to right, each replaced by its group.
RECURSIVE PlaceholderSubFrom(_, _)
PlaceholderSubFrom(s, i) ==
    IF i > Len(s) THEN <<>>
    ELSE LET m == PlaceholderMatch(s, i) IN
         IF m.found THEN m.group \o PlaceholderSubFrom(s, m.next)
         ELSE <<s[i]>> \o PlaceholderSubFrom(s, i + 1)

PlaceholderSub(s) == PlaceholderSubFrom(s, 1)


\* The texts of a paragraph (the concatenation of its runs' texts).
Texts == UNION {[1..n -> Chars] : n \in 0..MaxLen}

\* The texts of a table cell (its paragraphs' texts, concatenated): empty, a
\* word, a placeholder.
CellTexts == {<<>>, <<"a">>, <<"{", "b", "}">>}

\* A table: its rows, each the texts of its cells.
Tables == UNION {[1..r -> [1..c -> CellTexts]] : r \in 1..MaxRows, c \in 1..MaxCols}

\* The blocks iter_block_items yields.
ParagraphBlock(t) == [kind |-> "p", text |-> t, rows |-> <<>>]
TableBlock(rows) == [kind |-> "tbl", text |-> <<>>, rows |-> rows]

\* A header or a footer of a section: linked to the previous section
\* (is_linked_to_previous; for the first section, not defined), or its own,
\* with one paragraph, which may hold no text.
Stories == {[linked |-> TRUE, text |-> <<>>], [linked |-> FALSE, text |-> <<>>],
            [linked |-> FALSE, text |-> <<"a">>]}

Sections == [header : Stories, footer : Stories]

PlainSection ==
    [header |-> [linked |-> TRUE, text |-> <<>>],
     footer |-> [linked |-> TRUE, text |-> <<>>]]

\* The documents: one paragraph of any text; a table, alone or after a
\* paragraph; sections with headers and footers around an empty or a
\* one-paragraph body.
Documents ==
    {[sections |-> <<PlainSection>>, body |-> <<ParagraphBlock(t)>>] : t \in Texts}
    \cup {[sections |-> <<PlainSection>>, body |-> pre \o <<TableBlock(rows)>>] :
             pre \in {<<>>, <<ParagraphBlock(<<"a">>)>>}, rows \in Tables}
    \cup {[sections |-> ss, body |-> b] :
             ss \in UNION {[1..n -> Sections] : n \in 1..MaxSections},
             b \in {<<>>, <<ParagraphBlock(<<"b">>)>>}}

\* The list all_text with one more line, if the line is not empty
\* (if text: all_text.append(text)).
AppendIfText(all_text, line) == IF line # <<>> THEN Append(all_text, line) ELSE all_text

\* '\n'.join(all_text), kept as the list of its lines; the empty line is <<>>.
\* The join of one empty line is the empty string, as is the join of no line.
JoinLines(all_text) == IF all_text = << <<>> >> THEN <<>> ELSE all_text

\* The rows of a table in extract_content: the texts of the cells joined by
\* tabs, the joined row stripped, and left out if nothing remains.
RECURSIVE RowLines(_)
RowLines(rows) ==
    IF rows = <<>> THEN <<>>
    ELSE AppendIfText(<<>>, StrStrip(TabJoin(Head(rows)))) \o RowLines(Tail(rows))

\* for block in iter_block_items(document), in extract_content.
RECURSIVE BodyLines(_)
BodyLines(blocks) ==
    IF blocks = <<>> THEN <<>>
    ELSE LET block == Head(blocks) IN
         (IF block.kind = "p"
          THEN AppendIfText(<<>>, StrStrip(block.text))
          ELSE RowLines(block.rows)) \o BodyLines(Tail(blocks))

\* for section in document.sections: the headers that are not linked to the
\* previous section.
RECURSIVE HeaderLines(_)
HeaderLines(sections) ==
    IF sections = <<>> THEN <<>>
    ELSE LET h == Head(sections).header IN
         (IF h.linked THEN <<>> ELSE AppendIfText(<<>>, StrStrip(h.text)))
         \o HeaderLines(Tail(sections))

\* The footers: the first footer that is not linked to the previous section
\* puts an empty line before it (footer_added), whatever it holds.
RECURSIVE FooterLines(_, _)
FooterLines(sections, footer_added) ==
    IF sections = <<>> THEN <<>>
    ELSE LET f == Head(sections).footer IN
         IF f.linked THEN FooterLines(Tail(sections), footer_added)
         ELSE (IF footer_added THEN <<>> ELSE << <<>> >>)
              \o AppendIfText(<<>>, StrStrip(f.text))
              \o FooterLines(Tail(sections), TRUE)

\* extract_content on a document python-docx has opened.
ExtractContentText(doc) ==
    LET headers == HeaderLines(doc.sections)
        sep     == IF headers # <<>> THEN << <<>> >> ELSE <<>>
    IN JoinLines(headers \o sep \o BodyLines(doc.body)
                 \o FooterLines(doc.sections, FALSE))

\* The rows of a table in extract_content_with_python_docx: the placeholders
\* of each cell replaced, the cell stripped.
RECURSIVE NormalizedCells(_)
NormalizedCells(cells) ==
    IF cells = <<>> THEN <<>>
    ELSE <<StrStrip(PlaceholderSub(Head(cells)))>> \o NormalizedCells(Tail(cells))

RECURSIVE NormalizedRowLines(_)
NormalizedRowLines(rows) ==
    IF rows = <<>> THEN <<>>
    ELSE AppendIfText(<<>>, StrStrip(TabJoin(NormalizedCells(Head(rows)))))
         \o NormalizedRowLines(Tail(rows))

\* for block in iter_block_items(document), in
\* extract_content_with_python_docx: a paragraph is stripped and, if text
\* remains, its placeholders are replaced.
RECURSIVE NormalizedBodyLines(_)
NormalizedBodyLines(blocks) ==
    IF blocks = <<>> THEN <<>>
    ELSE LET block == Head(blocks) IN
         (IF block.kind = "p"
          THEN (IF StrStrip(block.text) # <<>>
                THEN <<PlaceholderSub(StrStrip(block.text))>> ELSE <<>>)
          ELSE NormalizedRowLines(block.rows)) \o NormalizedBodyLines(Tail(blocks))

\* extract_content_with_python_docx (ExtractText.py): the body alone.
ExtractContentWithPythonDocx(doc) == JoinLines(NormalizedBodyLines(doc.body))


\* The texts of the w:p elements of a part, in document order: findall
\* ('.//w:p') finds the paragraphs of the body and those inside the cells of
\* its tables alike.
RECURSIVE Flatten(_)
Flatten(seqs) == IF seqs = <<>> THEN <<>> ELSE Head(seqs) \o Flatten(Tail(seqs))

RECURSIVE AllParagraphs(_)
AllParagraphs(blocks) ==
    IF blocks = <<>> THEN <<>>
    ELSE LET block == Head(blocks) IN
         (IF block.kind = "p" THEN <<block.text>> ELSE Flatten(block.rows))
         \o AllParagraphs(Tail(blocks))

\* The lines of a list of paragraphs: each stripped, the empty ones left out.
RECURSIVE StrippedLines(_)
StrippedLines(paras) ==
    IF paras = <<>> THEN <<>>
    ELSE AppendIfText(<<>>, StrStrip(Head(paras))) \o StrippedLines(Tail(paras))

\* cell_texts of a row in extract_text_from_xml: the cells that hold text,
\* stripped; a cell without text is passed over.
RECURSIVE ZipCellTexts(_)
ZipCellTexts(cells) ==
    IF cells = <<>> THEN <<>>
    ELSE (IF Head(cells) # <<>> THEN <<StrStrip(Head(cells))>> ELSE <<>>)
         \o ZipCellTexts(Tail(cells))

RECURSIVE ZipRowLines(_)
ZipRowLines(rows) ==
    IF rows = <<>> THEN <<>>
    ELSE LET cell_texts == ZipCellTexts(Head(rows))
             row_text   == TabJoin(cell_texts)
         IN (IF cell_texts # <<>> /\ StrStrip(row_text) # <<>>
             THEN <<row_text>> ELSE <<>>) \o ZipRowLines(Tail(rows))

RECURSIVE ZipTableLines(_)
ZipTableLines(blocks) ==
    IF blocks = <<>> THEN <<>>
    ELSE (IF Head(blocks).kind = "tbl" THEN ZipRowLines(Head(blocks).rows) ELSE <<>>)
         \o ZipTableLines(Tail(blocks))

\* extract_text_from_xml on a part that parses: the paragraphs, then the
\* rows of the tables.
ExtractTextFromXml(blocks) ==
    StrippedLines(AllParagraphs(blocks)) \o ZipTableLines(blocks)

\* The header parts (word/header*.xml) of the package, each followed by an
\* empty line if it gave text; a story that is not linked has a part.
RECURSIVE ZipHeaderLines(_)
ZipHeaderLines(sections) ==
    IF sections = <<>> THEN <<>>
    ELSE LET h == Head(sections).header
             header_content == ExtractTextFromXml(<<ParagraphBlock(h.text)>>)
         IN (IF ~h.linked /\ header_content # <<>>
             THEN header_content \o << <<>> >> ELSE <<>>)
            \o ZipHeaderLines(Tail(sections))

RECURSIVE ZipFooterLines(_)
ZipFooterLines(sections) ==
    IF sections = <<>> THEN <<>>
    ELSE LET f == Head(sections).footer IN
         (IF f.linked THEN <<>> ELSE ExtractTextFromXml(<<ParagraphBlock(f.text)>>))
         \o ZipFooterLines(Tail(sections))

\* str.strip() of a text of several lines: the empty lines and the spaces at
\* both of its ends go.
RECURSIVE LStripLines(_)
LStripLines(lines) ==
    IF lines = <<>> THEN <<>>
    ELSE IF LStrip(Head(lines)) = <<>> THEN LStripLines(Tail(lines))
    ELSE <<LStrip(Head(lines))>> \o Tail(lines)

RECURSIVE RStripLines(_)
RStripLines(lines) ==
    IF lines = <<>> THEN <<>>
    ELSE LET n == Len(lines) IN
         IF RStrip(lines[n]) = <<>> THEN RStripLines(SubSeq(lines, 1, n - 1))
         ELSE SubSeq(lines, 1, n - 1) \o <<RStrip(lines[n])>>

StripLines(lines) == RStripLines(LStripLines(lines))

\* _extract_with_zipfile_fallback on a package whose parts all parse.
ZipFallbackText(doc) ==
    LET footer_files == \E i \in DOMAIN doc.sections : ~doc.sections[i].footer.linked
    IN StripLines(ZipHeaderLines(doc.sections)
                  \o ExtractTextFromXml(doc.body)
                  \o (IF footer_files THEN << <<>> >> ELSE <<>>)
                  \o ZipFooterLines(doc.sections))

\* No text: the function has not been called.
NoText == <<<<"none">>>>

\* A document is given; each of the three functions may be called on it.
InitText ==
    /\ BatchIdle
    /\ \E doc \in Documents :
         txt = [doc |-> doc, structured |-> NoText, normalized |-> NoText,
                zip |-> NoText]
    /\ ext = Unused /\ rep = Unused /\ outDir = Unused /\ listing = Unused
    /\ probe = Unused /\ clean = Unused /\ tally = Unused

\* extract_content(docx_path) returns.
TextExtractContent ==
    /\ txt.structured = NoText
    /\ txt' = [txt EXCEPT !.structured = ExtractContentText(txt.doc)]
    /\ UNCHANGED <<batchVars, ext, rep, outDir, listing, probe, clean, tally>>

\* extract_content_with_python_docx(docx_path) returns.
TextExtractNormalized ==
    /\ txt.normalized = NoText
    /\ txt' = [txt EXCEPT !.normalized = ExtractContentWithPythonDocx(txt.doc)]
    /\ UNCHANGED <<batchVars, ext, rep, outDir, listing, probe, clean, tally>>

\* _extract_with_zipfile_fallback(docx_path) returns.
TextZipFallback ==
    /\ txt.zip = NoText
    /\ txt' = [txt EXCEPT !.zip = ZipFallbackText(txt.doc)]
    /\ UNCHANGED <<batchVars, ext, rep, outDir, listing, probe, clean, tally>>

NextText ==
    \/ TextExtractContent
    \/ TextExtractNormalized
    \/ TextZipFallback

SpecText == InitText /\ [][NextText]_vars


-----------------------------------------------------------------------------
(* _find_soffice_executable, one call                                      *)

\* The paths that can become candidates:
\*   where        a line of the output of `where soffice` (a file found on PATH)
\*   cfg          cfg.soffice_path itself
\*   cfg_exe, cfg_com, cfg_bin
\*                soffice.exe, soffice.com, soffice.bin under cfg.soffice_path
\*   wk_first, wk_last
\*                the first and the last of the nine installation paths of
\*                the fixed list (lines 64-73)
\*   soffice, libreoffice
\*                the two bare names at the end of the fixed list, which
\*                subprocess.run resolves on PATH
ProbePaths ==
    {"where", "cfg", "cfg_exe", "cfg_com", "cfg_bin", "wk_first", "wk_last",
     "soffice", "libreoffice"}

\* What subprocess.run([path, "--version"], timeout=...) does:
\*   zero     it exits with code 0 in time
\*   nonzero  it exits with another code
\*   except   TimeoutExpired, FileNotFoundError or OSError
ProbeOutcomes == {"zero", "nonzero", "except"}

\* cfg.soffice_path: not set, a file, or a directory.
SofficePathKinds == {"unset", "file", "dir"}

\* The candidates of `where soffice`: on Windows, when it exits with 0 and
\* prints a path that is a file.
WhereCandidates(env) == IF env.nt /\ env.whereFound THEN <<"where">> ELSE <<>>

\* if cfg.soffice_path: the directory's three names, or the path itself.
ConfiguredCandidates(env) ==
    CASE env.soffice_path = "dir"  -> <<"cfg_exe", "cfg_com", "cfg_bin">>
      [] env.soffice_path = "file" -> <<"cfg">>
      [] OTHER                     -> <<>>

\* candidates.extend([...]): the installation paths, then the bare names.
CommonCandidates == <<"wk_first", "wk_last", "soffice", "libreoffice">>

\* The list candidates when the loop starts.
Candidates(env) ==
    WhereCandidates(env) \o ConfiguredCandidates(env) \o CommonCandidates

\* The first path of a list whose probe exits with code 0, or "None".
RECURSIVE FirstValid(_, _)
FirstValid(paths, outcome) ==
    IF paths = <<>> THEN "None"
    ELSE IF outcome[Head(paths)] = "zero" THEN Head(paths)
    ELSE FirstValid(Tail(paths), outcome)

\* for path in candidates: ... if test.returncode == 0: return path
FindSofficeExecutable(env) == FirstValid(Candidates(env), env.outcome)

\* _find_soffice_executable(cfg) is called on a host.
InitProbe ==
    /\ BatchIdle
    /\ \E nt \in BOOLEAN, whereFound \in BOOLEAN, sp \in SofficePathKinds,
          outcome \in [ProbePaths -> ProbeOutcomes] :
         /\ ~nt => ~whereFound
         /\ probe = [env |-> [nt |-> nt, whereFound |-> whereFound,
                              soffice_path |-> sp, outcome |-> outcome],
                     pc |-> "called", result |-> "pending"]
    /\ ext = Unused /\ rep = Unused /\ outDir = Unused /\ listing = Unused
    /\ txt = Unused /\ clean = Unused /\ tally = Unused

\* The call returns.
ProbeReturn ==
    /\ probe.pc = "called"
    /\ probe' = [probe EXCEPT !.pc = "returned",
                              !.result = FindSofficeExecutable(probe.env)]
    /\ UNCHANGED <<batchVars, ext, rep, outDir, listing, txt, clean, tally>>

NextProbe == ProbeReturn

SpecProbe == InitProbe /\ [][NextProbe]_vars


-----------------------------------------------------------------------------
(* The cleanups of one process_file call with the conversion enabled       *)

\* How an attempt of the converter goes if nothing is in its way:
\*   timeout1  asyncio.wait_for on step 1 times out: continue
\*   fail1     step 1 exits with a code other than 0: return False
\*   nodoc     step 1 exits with 0 and the .doc is not there: continue
\*   timeout2  asyncio.wait_for on step 2 times out: continue
\*   fail2     step 2 exits with a code other than 0: continue
\*   noout     step 2 exits with 0 and the .docx is not there: continue
\*   ok        both steps exit with 0, the artifact is copied: return True
AttemptCourses == {"timeout1", "fail1", "nodoc", "timeout2", "fail2", "noout", "ok"}

\* The removals that fail in a call:
\*   work[a]    the removal of temp_dir at the end of the with block of
\*              attempt a (TemporaryDirectory.__exit__ -> shutil.rmtree)
\*   profile    shutil.rmtree(temp_profile_dir)
\*   converted  os.remove(converted_docx_path) in process_file
CleanupFailures ==
    [work : [DOMAIN Attempts -> BOOLEAN], profile : BOOLEAN, converted : BOOLEAN]

NoCleanupFailure ==
    [work |-> [a \in DOMAIN Attempts |-> FALSE], profile |-> FALSE, converted |-> FALSE]

\* One pass of the for loop, attempt a, that would take the course e: what it
\* does, in order, and how it ends ("true" / "false": return; "continue").
\* The with block ends after process1 is launched; if the removal of temp_dir
\* raises there, except Exception catches it: continue, and process1 is not
\* waited for.
AttemptRun(a, e, workFails) ==
    LET one == <<<<a, "launch1">>, <<a, "wait1">>>>
        two == one \o <<<<a, "launch2">>, <<a, "wait2">>>>
    IN IF workFails
       THEN [steps |-> <<<<a, "launch1">>>>, result |-> "continue"]
       ELSE CASE e = "timeout1" -> [steps |-> one, result |-> "continue"]
              [] e = "fail1"    -> [steps |-> one, result |-> "false"]
              [] e = "nodoc"    -> [steps |-> one, result |-> "continue"]
              [] e = "ok"       -> [steps |-> two \o <<<<a, "copy">>>>, result |-> "true"]
              [] OTHER          -> [steps |-> two, result |-> "continue"]

\* The for loop from attempt a on. The finally clause of an attempt removes
\* the profile directory; a failure of that removal is logged
\* (LOGGER.warning) and the loop goes on as it would have.
RECURSIVE ConverterRun(_, _, _)
ConverterRun(a, course, fails) ==
    LET r == AttemptRun(a, course[a], fails.work[a]) IN
    IF r.result # "continue" THEN r
    ELSE IF HasNextAttempt(a)
    THEN LET rest == ConverterRun(a + 1, course, fails) IN
         [steps |-> r.steps \o rest.steps, result |-> rest.result]
    ELSE [steps |-> r.steps, result |-> "false"]

\* What is left on disk by the removals that failed.
LeftBehind(r, fails) ==
    (IF fails.profile THEN {"profile"} ELSE {})
    \cup (IF fails.converted /\ r.result = "true" THEN {"converted"} ELSE {})
    \cup (IF \E a \in DOMAIN fails.work :
                /\ fails.work[a]
                /\ \E i \in DOMAIN r.steps : r.steps[i] = <<a, "launch1">>
          THEN {"work"} ELSE {})

\* The state before the call.
NotRun == [steps |-> <<>>, result |-> "none"]

\* process_file is called on a file, on a host where each attempt would take
\* a given course and some removals fail.
InitCleanup ==
    /\ BatchIdle
    /\ \E course \in [DOMAIN Attempts -> AttemptCourses], fails \in CleanupFailures :
         clean = [course |-> course, fails |-> fails, pc |-> "called",
                  conv |-> NotRun, path |-> "none", left |-> {}]
    /\ ext = Unused /\ rep = Unused /\ outDir = Unused /\ listing = Unused
    /\ txt = Unused /\ probe = Unused /\ tally = Unused

\* The converter runs and returns.
CleanupConvert ==
    /\ clean.pc = "called"
    /\ clean' = [clean EXCEPT !.pc = "converted",
                              !.conv = ConverterRun(1, clean.course, clean.fails)]
    /\ UNCHANGED <<batchVars, ext, rep, outDir, listing, txt, probe, tally>>

\* The rest of process_file: the choice of the file to extract from, the
\* extraction, and the finally clause, where a failure of os.remove is
\* logged.
CleanupFinish ==
    /\ clean.pc = "converted"
    /\ clean' = [clean EXCEPT !.pc = "done",
                              !.path = ExtractionPath(clean.conv.result = "true",
                                                      clean.conv.result = "true"),
                              !.left = LeftBehind(clean.conv, clean.fails)]
    /\ UNCHANGED <<batchVars, ext, rep, outDir, listing, txt, probe, tally>>

NextCleanup ==
    \/ CleanupConvert
    \/ CleanupFinish

SpecCleanup == InitCleanup /\ [][NextCleanup]_vars


-----------------------------------------------------------------------------
(* process_files_in_parallel, one call on a list of paths                  *)

\* files: List[str]. The lists of up to NumFiles entries over the paths
\* Files; an entry may repeat an earlier one.
FileLists == UNION {[1..n -> Files] : n \in 0..NumFiles}

\* The tasks of the call: tasks = [process_with_semaphore(file_path) for
\* file_path in files], one per entry of the list.
Tasks(fl) == DOMAIN fl

\* What process_file does for an entry: it returns the text of the file
\* (return extracted_text) or it raises.
FileOutcomes == {"returns", "raises"}

\* The call has been made with config.concurrency_limit = limit: the
\* semaphore is new, results = {} and errors = {}, and no task has run yet.
InitTally ==
    /\ BatchIdle
    /\ \E fl \in FileLists, limit \in 1..MaxConcurrency :
         tally = [files     |-> fl,
                  limit     |-> limit,
                  semaphore |-> limit,
                  pc        |-> [i \in Tasks(fl) |-> "queued"],
                  results   |-> EmptyDict,
                  errors    |-> EmptyDict,
                  ret       |-> "running"]
    /\ ext = Unused /\ rep = Unused /\ outDir = Unused /\ listing = Unused
    /\ txt = Unused /\ probe = Unused /\ clean = Unused

\* async with semaphore: task i gets a slot and calls process_file.
TallyAcquire(i) ==
    /\ tally.ret = "running"
    /\ tally.pc[i] = "queued"
    /\ tally.semaphore > 0
    /\ tally' = [tally EXCEPT !.pc[i] = "running", !.semaphore = @ - 1]
    /\ UNCHANGED <<batchVars, ext, rep, outDir, listing, txt, probe, clean>>

\* Faulty variant of ReleaseSlot: the slot is given back after a return of
\* process_file and kept after an exception.
ReleaseOnReturn(sem, o) == IF o = "returns" THEN sem + 1 ELSE sem

\* The end of `async with semaphore` (__aexit__): semaphore.release(), whether
\* the block ended normally or with the exception that was caught in it.
ReleaseSlot(sem, o) == sem + 1

\* process_file has come back to task i: results[file_path] = extracted_text,
\* or except Exception: errors[file_path] = str(e); the slot is released.
TallyRecord(i) ==
    /\ tally.pc[i] = "running"
    /\ \E o \in FileOutcomes :
         LET file_path == tally.files[i] IN
         tally' = [tally EXCEPT
                     !.pc[i] = "done",
                     !.semaphore = ReleaseSlot(@, o),
                     !.results = IF o = "returns"
                                 THEN Put(@, file_path, <<file_path>>) ELSE @,
                     !.errors = IF o = "raises"
                                THEN Put(@, file_path, <<"failed">>) ELSE @]
    /\ UNCHANGED <<batchVars, ext, rep, outDir, listing, txt, probe, clean>>

\* if not files: return {}; otherwise asyncio.gather has returned, the summary
\* is logged, and the call raises (if not results) or returns results.
TallyReturn ==
    /\ tally.ret = "running"
    /\ \A i \in Tasks(tally.files) : tally.pc[i] = "done"
    /\ tally' = [tally EXCEPT !.ret = IF tally.files = <<>> THEN "empty"
                                      ELSE BatchOutcome(tally.results)]
    /\ UNCHANGED <<batchVars, ext, rep, outDir, listing, txt, probe, clean>>

NextTally ==
    \/ \E i \in 1..NumFiles : i \in Tasks(tally.files) /\ TallyAcquire(i)
    \/ \E i \in 1..NumFiles : i \in Tasks(tally.files) /\ TallyRecord(i)
    \/ TallyReturn

SpecTally == InitTally /\ [][NextTally]_vars

\* The event loop runs every task that can run: a task waiting for a slot
\* gets it once one stays free, a process_file call that terminates comes
\* back, and gather returns once every task is over. Which of the waiting
\* tasks gets a free slot is left open.
FairTally ==
    /\ SpecTally
    /\ \A i \in 1..NumFiles : WF_vars(i \in Tasks(tally.files) /\ TallyAcquire(i))
    /\ \A i \in 1..NumFiles : WF_vars(i \in Tasks(tally.files) /\ TallyRecord(i))
    /\ WF_vars(TallyReturn)


-----------------------------------------------------------------------------
(* Properties                                                              *)

\* The process_file executions in flight: the tasks that hold a slot.
InFlight == {f \in Files : pc[f] \in {"conv1", "conv2", "post"}}

\* The converter call of job f has just returned to process_file.
Returned(f) == pc[f] = "post" /\ convResult[f] # "none"

\* C1: at every instant at most one soffice conversion subprocess is running
\* across all jobs, also with two or more files and concurrency_limit >= 2.
C1AtMostOneSubprocess == Cardinality(procs) <= 1

\* C2: for a batch of K files of which M cannot be extracted,
\* process_files_in_parallel ends without raising, with exactly K - M
\* successes and M failures recorded (for every 0 <= M <= K). M counts the
\* files whose failure is their own: a missing or misnamed input, or a
\* package the extraction could not open.
C2PartialFailure ==
    batchPc # "running" =>
        LET K == Cardinality(files)
            M == Cardinality({f \in files : /\ f \in DOMAIN errors
                                            /\ errors[f] # <<"conversion">>})
        IN /\ batchPc # "raised"
           /\ Cardinality(DOMAIN results) = K - M
           /\ Cardinality(DOMAIN errors) = M

\* C3: an exception raised while one file is processed is recorded against
\* that file's path only, and every other file is processed as if the failing
\* file were not there: each finished task has exactly one entry, under its
\* own path, in results or in errors; only finished tasks of the batch have
\* entries; a text recorded for a file was extracted from that file's own
\* content; every task that is over has given its slot back; and the batch
\* ends only when every task is over.
C3FailureIsLocal ==
    /\ \A f \in files :
          pc[f] = "done" => (f \in DOMAIN results) # (f \in DOMAIN errors)
    /\ \A f \in (DOMAIN results) \cup (DOMAIN errors) : f \in files /\ pc[f] = "done"
    /\ \A f \in DOMAIN results : results[f] # <<>> => results[f][1] = f
    /\ semaphore = config.concurrency_limit - Cardinality(InFlight)
    /\ batchPc \in {"returned", "raised"} => \A f \in files : pc[f] = "done"

\* C3, its case: a file of the batch has failed and another file, of the same
\* base name, has its text recorded.
C3Witness ==
    \E f, g \in files :
        /\ f # g /\ base[f] = base[g]
        /\ f \in DOMAIN errors
        /\ g \in DOMAIN results /\ results[g] # <<>>
        /\ batchPc = "returned"

\* C4: at every instant the number of process_file executions in flight is
\* at most config.concurrency_limit, whatever the number of input files.
C4BoundedInFlight == Cardinality(InFlight) <= config.concurrency_limit

\* C4, its case: every slot is taken while a task still waits for one.
C4Witness ==
    /\ Cardinality(InFlight) = config.concurrency_limit
    /\ \E f \in files : pc[f] = "queued"

\* C5: when no working soffice is found, or the conversion call returns
\* failure or raises, process_file skips the conversion and extracts from the
\* original input: a failure recorded for such a file can only be that the
\* original could not be extracted, and a text recorded for it comes from the
\* original.
C5FallsBackToOriginal ==
    \A f \in files :
        pc[f] = "done" /\ convResult[f] \in {"false", "raised"} =>
            /\ f \in DOMAIN errors => errors[f] = <<"extraction", "original">>
            /\ f \in DOMAIN results /\ results[f] # <<>> =>
                   results[f][2] = "original"

\* C6: when a conversion step exceeds the timeout its subprocess is terminated
\* before the step is reported as failed: no subprocess of a timed-out step is
\* still running when the converter starts its next attempt or returns.
C6TimedOutSubprocessTerminated == \A p \in procs : ~p.timedOut

C8DirectoriesRemovedAtReturn ==
    \A f \in Files :
        Returned(f) => /\ ~profileDir[f]
                       /\ ~conv[f].workDir
                       /\ ~leftDirs[f]

\* C9: every conversion subprocess runs on a profile directory created for
\* its job alone: no two concurrently running jobs run soffice against the
\* same profile.
C9ProfilePerJob ==
    /\ \A p \in procs : p.profile = p.job
    /\ \A p, q \in procs : p.job # q.job => p.profile # q.profile

\* C10: the converter reports success only after both steps of one attempt
\* exited with code 0, the intermediate .doc was deleted and the final
\* artifact was copied to the destination; when it reports success the
\* destination file exists (and holds the conversion of this job's input).
C10SuccessMeansConverted ==
    \A f \in Files :
        Returned(f) /\ convResult[f] = "true" =>
            /\ conv[f].rc1 = 0 /\ conv[f].rc2 = 0
            /\ ~conv[f].doc
            /\ tempDir[base[f]] = f

\* C10, its case: the converter has returned True, on its second attempt,
\* for one of two inputs of the same base name.
C10Witness ==
    \E f \in files :
        /\ Returned(f) /\ convResult[f] = "true"
        /\ conv[f].attempt = 2
        /\ \E g \in files : g # f /\ base[g] = base[f]

\* C11: when the structured extraction fails on a relationship to a missing
\* part, the engine invokes repair_docx_strip_customxml and then retries the
\* structured extraction exactly once, on the repaired package.
C11RepairThenRetryOnce ==
    ext.pc = "done" /\ ext.pkg.open \in Dangling =>
        ext.calls = <<"structured", "repair", "structured">>

\* C12: when the structured extraction and every fallback stage after it
\* fail, the extraction ends as a failure that carries the cause of the
\* structured extraction's failure; it never ends as a success.
C12AllFailedGivesFirstCause ==
    ext.pc = "done" /\ ext.failures # <<>> /\ Len(ext.failures) = Len(ext.calls) =>
        /\ ext.outcome.raised
        /\ ext.outcome.cause = ext.failures[1]

\* C13: every extraction ends as a success with text or as a failure with a
\* cause: where a part of the package could not be read or parsed, the result
\* is not a success (with empty or partial text).
C13NeverSilentlyPartial ==
    ext.pc = "done" =>
        IF ext.outcome.raised
        THEN ext.outcome.cause \notin {"none", "pending"}
        ELSE /\ ext.skipped = {}
             /\ \A i \in DOMAIN ext.failures : ext.failures[i] # "zip_failed"

\* C14: _extract_with_zipfile_fallback is used only where the configuration
\* selects it; a failure of the structured extraction never switches the
\* extraction to it. (extract_content takes the path alone: no configuration
\* reaches it.)
C14NoAutomaticZipFallback ==
    \A i \in DOMAIN ext.calls : ext.calls[i] = "zip" => ext.failures = <<>>

\* C15: repair_docx_strip_customxml never modifies the input package: after
\* any call, successful or failed, and for any output path, the input file
\* holds what it held before the call.
C15InputUnchanged == rep.inFile = rep.given

\* C16: in the package a successful repair produces there is no part under
\* customXml/, no Relationship of any manifest and no Override of the content
\* types refers to such a part, whatever the form of the target (relative,
\* parent-relative, absolute) and the quote style.
C16NoReferenceToOmittedPart ==
    rep.returned = "True" =>
        \A i \in DOMAIN RepairedPackage :
            /\ ~ShouldSkipMember(RepairedPackage[i].name)
            /\ ~RefersToAux(RepairedPackage[i])

\* C17: every part of the input that is not under customXml/ and is neither
\* a relationship manifest nor the content types is in the repaired package
\* under its name with its bytes; so is every manifest that holds no
\* reference to a part under customXml/.
C17OtherPartsCopied ==
    rep.returned = "True" =>
        \A i \in DOMAIN rep.given.pkg :
            LET m == rep.given.pkg[i] IN
            ~ShouldSkipMember(m.name) /\ ~RefersToAux(m) =>
                \E j \in DOMAIN RepairedPackage : RepairedPackage[j] = m

\* C18: for a package with a relationship to a missing part under customXml/,
\* the structured extraction of the repaired package gives the text that the
\* extraction gives for the same package without that part and without the
\* relationship.
C18RepairThenExtract ==
    /\ rep.returned = "True"
    /\ ~HasMember(rep.given.pkg, AuxName)
    /\ \E i \in DOMAIN rep.given.pkg : RefersToAux(rep.given.pkg[i])
    => PrimaryExtract(RepairedPackage) = PrimaryExtract(NeverHadAux(rep.given.pkg))

\* C19: with overwrite disabled, when <base><ext> exists, process_file
\* writes to <base>_<n><ext> for the smallest n >= 1 whose name is unused
\* (with file.txt there: file_1.txt), and every file that was there before
\* is unchanged.
C19SmallestUnusedSuffix ==
    ~outDir.overwrite /\ outDir.count > 0 =>
        LET b == outDir.last.base
            name == outDir.last.name
            existing == outDir.last.existing
        IN
        /\ name[1] = b
        /\ name \notin existing
        /\ <<b, 0>> \in existing =>
              /\ name[2] >= 1
              /\ \A m \in 1..(name[2] - 1) : <<b, m>> \in existing
        /\ <<b, 0>> \notin existing => name[2] = 0
        /\ \A x \in DOMAIN outDir.before : outDir.files[x] = outDir.before[x]

\* C19, its case: file.txt and file_1.txt were there, overwrite is disabled
\* and the text went to file_2.txt.
C19Witness ==
    /\ ~outDir.overwrite /\ outDir.count > 0
    /\ LET b == outDir.last.base IN
       /\ {<<b, 0>>, <<b, 1>>} \subseteq DOMAIN outDir.before
       /\ outDir.last.name = <<b, 2>>

\* C20: find_docx_files returns, in sorted order, exactly the files of the
\* directory (and of its subdirectories only when recursive is set) whose
\* name ends in .docx (in any case) and does not start with ~$; a directory
\* that does not exist gives the empty list.
C20ExactlyTheDocxFiles ==
    listing.pc = "returned" =>
        LET t == listing.tree
            res == listing.result
            wanted ==
                {<<e.rank>> : e \in {x \in t.top : /\ x.kind = "file"
                                                  /\ x.ext \in {".docx", ".DOCX"}
                                                  /\ x.prefix = ""}}
                \cup (IF listing.recursive /\ t.hasSub
                      THEN {<<SubRank, e.rank>> :
                                e \in {x \in t.sub : /\ x.kind = "file"
                                                     /\ x.ext \in {".docx", ".DOCX"}
                                                     /\ x.prefix = ""}}
                      ELSE {})
        IN
        /\ {res[i] : i \in DOMAIN res} = wanted
        /\ Len(res) = Cardinality(wanted)
        /\ \A i \in 1..(Len(res) - 1) : PathLess(res[i], res[i + 1])
        /\ ~t.exists => res = <<>>

\* C25: an input that is not a zip package, or that has no word/document.xml,
\* ends as a failure on every extraction path: extract_content raises; it
\* never returns a text, empty or not, for it.
C25MalformedArchiveFails ==
    ext.pc = "done" /\ (ext.pkg.open \in NotZip \/ ext.pkg.body = "absent") =>
        ext.outcome.raised

\* C27: what process_files_in_parallel returns (or raises) tells, for every
\* input file, whether it succeeded or failed, and for every failed file its
\* cause message; the numbers of successes and failures are those of its
\* entries.
C27ResultExposesOutcomes ==
    batchPc \in {"returned", "raised"} =>
        /\ \A f \in files :
              f \in DOMAIN BatchReturn.value \/ f \in DOMAIN errors
        /\ \A f \in DOMAIN errors :
              /\ f \in DOMAIN BatchReturn.value
              /\ BatchReturn.value[f] = errors[f]

\* C29: the working directory of a job (the --outdir of both steps) is on
\* disk from before step 1 is launched until the artifact has been copied:
\* while the converter waits for a subprocess of the job, the directory
\* exists.
C29WorkDirOutlivesSubprocesses ==
    \A f \in Files : pc[f] \in {"conv1", "conv2"} => conv[f].workDir

\* C30: two files in flight at the same time share neither their temporary
\* directory nor the path of their converted intermediate document, also
\* when the inputs have the same base name in different directories.
C30NoSharedIntermediate ==
    \A f, g \in InFlight :
        f # g => /\ TempDirPath(f) # TempDirPath(g)
                 /\ ConvertedDocxPath(f) # ConvertedDocxPath(g)

\* The lines a table stands for: one per row, in row order, the texts of the
\* cells of the row in column order with one tab between two cells.
TableLines(rows) == [i \in 1..Len(rows) |-> TabJoin(rows[i])]

\* The document is one table and nothing else.
OnlyTable(doc) ==
    /\ doc.sections = <<PlainSection>>
    /\ Len(doc.body) = 1 /\ doc.body[1].kind = "tbl"

\* C21: each table row is emitted as one line, the texts of its cells in
\* column order with a single tab between consecutive cells, empty cells
\* included, the rows in row order; by extract_content and by the zip
\* traversal alike.
C21TableRowsTabSeparated ==
    OnlyTable(txt.doc) =>
        /\ txt.structured # NoText =>
              txt.structured = JoinLines(TableLines(txt.doc.body[1].rows))
        /\ txt.zip # NoText =>
              txt.zip = JoinLines(TableLines(txt.doc.body[1].rows))

\* The first brace of s at or after position i, or 0.
RECURSIVE FirstBrace(_, _)
FirstBrace(s, i) ==
    IF i > Len(s) THEN 0
    ELSE IF s[i] \in {"{", "}"} THEN i
    ELSE FirstBrace(s, i + 1)

\* A placeholder token { name } starts at position i of s: an opening brace,
\* a name without braces that is not blank, the closing brace.
IsTokenAt(s, i) ==
    /\ i <= Len(s) /\ s[i] = "{"
    /\ LET j == FirstBrace(s, i + 1) IN
         /\ j # 0 /\ s[j] = "}"
         /\ StrStrip(SubSeq(s, i + 1, j - 1)) # <<>>

\* s from position i on with every placeholder token replaced by its name,
\* the braces and the blanks around the name removed.
RECURSIVE NormalizeTokensFrom(_, _)
NormalizeTokensFrom(s, i) ==
    IF i > Len(s) THEN <<>>
    ELSE IF IsTokenAt(s, i)
    THEN LET j == FirstBrace(s, i + 1) IN
         StrStrip(SubSeq(s, i + 1, j - 1)) \o NormalizeTokensFrom(s, j + 1)
    ELSE <<s[i]>> \o NormalizeTokensFrom(s, i + 1)

NormalizeTokens(s) == NormalizeTokensFrom(s, 1)

\* C22: where placeholders are normalized (extract_content, which announces
\* it, and extract_content_with_python_docx), every placeholder token of a
\* paragraph's text is replaced by its name, and no line of a table holds a
\* placeholder token any more.
C22PlaceholdersNormalized ==
    \A r \in {txt.structured, txt.normalized} \ {NoText} :
        LET body == txt.doc.body IN
        /\ (txt.doc.sections = <<PlainSection>> /\ Len(body) = 1 /\ body[1].kind = "p") =>
              r = JoinLines(AppendIfText(<<>>, StrStrip(NormalizeTokens(body[1].text))))
        /\ (\E k \in DOMAIN body : body[k].kind = "tbl") =>
              \A n \in DOMAIN r : \A i \in DOMAIN r[n] : ~IsTokenAt(r[n], i)

\* The texts of the headers (footers) that are not linked to the previous
\* section, in section order.
RECURSIVE OwnStoryLines(_, _)
OwnStoryLines(sections, which) ==
    IF sections = <<>> THEN <<>>
    ELSE LET st == IF which = "header" THEN Head(sections).header
                   ELSE Head(sections).footer
         IN (IF st.linked THEN <<>> ELSE AppendIfText(<<>>, StrStrip(st.text)))
            \o OwnStoryLines(Tail(sections), which)

\* C23: extract_content puts the text of the headers that are not linked to a
\* previous section before the body and that of such footers after it; one
\* empty line follows the header block if it has content, one empty line
\* precedes the footer block if it has content, and there is no other empty
\* line between the blocks; linked headers and footers give nothing.
C23HeadersBodyFooters ==
    txt.structured # NoText =>
        LET H == OwnStoryLines(txt.doc.sections, "header")
            F == OwnStoryLines(txt.doc.sections, "footer")
            B == BodyLines(txt.doc.body)
        IN txt.structured =
              JoinLines(H \o (IF H # <<>> THEN << <<>> >> ELSE <<>>) \o B
                        \o (IF F # <<>> THEN << <<>> >> ELSE <<>>) \o F)

\* The candidates in the order of priority the specification gives: the
\* explicitly configured path, then the lookup on PATH, then the fixed
\* installation paths.
PriorityOrder(env) ==
    ConfiguredCandidates(env)
    \o WhereCandidates(env) \o <<"soffice", "libreoffice">>
    \o <<"wk_first", "wk_last">>

\* C24: _find_soffice_executable returns the first candidate, in the order
\* configured path, PATH lookup, fixed installation paths, whose version
\* probe exits with code 0 in time, and None when there is none.
C24ProbePriorityOrder ==
    probe.pc = "returned" =>
        probe.result = FirstValid(PriorityOrder(probe.env), probe.env.outcome)

\* C28: a job that comes to its conversion stage while another job holds it
\* does not enter: it waits, and after the timeout T it gets LockTimeout and
\* goes on without the conversion. Whatever T is, two jobs are never in the
\* conversion stage together.
C28ContendedAcquireWaitsOrTimesOut ==
    \A f, g \in Files :
        f # g => ~(InConversionStage(f) /\ InConversionStage(g))

\* C26: a removal that fails (of the converted file, of the profile directory
\* or of the working directory) is only logged: the converter takes the same
\* steps and returns the same result, and process_file extracts from the same
\* file, as if every removal had succeeded.
C26CleanupFailureOnlyLogged ==
    clean.pc = "done" =>
        LET ref == ConverterRun(1, clean.course, NoCleanupFailure) IN
        /\ clean.conv = ref
        /\ clean.path = ExtractionPath(ref.result = "true", ref.result = "true")

\* C31: a converter call whose first attempt failed returns failure only after
\* one further attempt, the one without the custom profile, and it never goes
\* beyond that second attempt.
C31FailedFirstAttemptRetried ==
    \A f \in Files :
        Returned(f) /\ convResult[f] = "false" /\ conv[f].attempt > 0 =>
            conv[f].attempt = Len(Attempts)

\* C32: with overwrite_existing off, under every interleaving of the tasks of
\* a batch, inputs of the same base name included, no file that was in the
\* output directory before is written again, and every file that was
\* processed has an output file of its own holding its text.
C32DistinctOutputFiles ==
    /\ \A k \in DOMAIN EarlierOutput :
           k \in DOMAIN outFiles /\ outFiles[k] = EarlierOutput[k]
    /\ Cardinality(DOMAIN outFiles) =
           Cardinality(DOMAIN EarlierOutput) + Cardinality(DOMAIN results)
    /\ \A f \in DOMAIN results :
           \E k \in (DOMAIN outFiles) \ (DOMAIN EarlierOutput) :
               k[1] = base[f] /\ outFiles[k] = results[f]

\* C32, its case: two inputs of the same base name, whose <base><ext> was
\* there before, have run in a batch of two slots and both have been
\* processed.
C32Witness ==
    /\ ~config.overwrite_existing
    /\ config.concurrency_limit = 2
    /\ files = {1, 2} /\ base[1] = base[2]
    /\ DOMAIN results = files
    /\ DOMAIN outFiles = {<<1, 0>>, <<1, 1>>, <<1, 2>>}

\* C33: when process_files_in_parallel has run its tasks, every path of the
\* input list is in exactly one of results and errors, and the two counts add
\* up to the number of entries of the list.
C33EveryInputTallied ==
    tally.ret # "running" =>
        LET fl == tally.files
            success_count == Cardinality(DOMAIN tally.results)
            error_count   == Cardinality(DOMAIN tally.errors)
        IN
        /\ \A i \in Tasks(fl) :
               (fl[i] \in DOMAIN tally.results) # (fl[i] \in DOMAIN tally.errors)
        /\ success_count + error_count = Len(fl)

\* C34: with concurrency_limit >= 1 and process_file calls that terminate,
\* process_files_in_parallel finishes: every entry of the list gets a slot
\* and is processed, every slot taken is given back, after a return and after
\* an exception alike, and the call returns or raises.
C34BatchEventuallyFinishes ==
    <>[](/\ tally.ret # "running"
         /\ \A i \in Tasks(tally.files) : tally.pc[i] = "done"
         /\ tally.semaphore = tally.limit)

\* C34, its case: two entries and one slot, so that the second task had to
\* wait for the first; one call raised, the other returned, and the batch has
\* returned.
C34Witness ==
    /\ Len(tally.files) = 2 /\ tally.limit = 1
    /\ tally.ret = "returned"
    /\ DOMAIN tally.results # {} /\ DOMAIN tally.errors # {}
    /\ tally.semaphore = 1

\* C35: when Document() fails on a package for another reason than a
\* relationship to a missing customXML part, extract_content raises that
\* failure and has tried no fallback.
C35OtherOpenFailureReraised ==
    ext.pc = "done" /\ ext.pkg.open \notin {"ok", "customXML", "customXml"} =>
        /\ ext.outcome.raised
        /\ ext.outcome.cause = ext.pkg.open
        /\ ext.calls = <<"structured">>

\* The characters of a list of texts other than spaces and tabs, in order.
RECURSIVE Letters(_)
Letters(lines) ==
    IF lines = <<>> THEN <<>>
    ELSE SelectSeq(Head(lines), LAMBDA c : ~IsSpace(c)) \o Letters(Tail(lines))

\* C36: in what _extract_with_zipfile_fallback returns for a package whose
\* only part with text is word/document.xml, the text of every paragraph with
\* text, those in table cells included, stands exactly once, in the order of
\* the document.
C36EveryParagraphOnce ==
    /\ txt.zip # NoText
    /\ \A i \in DOMAIN txt.doc.sections : txt.doc.sections[i] = PlainSection
    => Letters(txt.zip) = Letters(AllParagraphs(txt.doc.body))

\* C37 as the specification words it: when repair_docx_strip_customxml
\* returns False, the file at the output path is what it was before the call
\* and the temporary file is gone.
C37FailureLeavesNothing ==
    rep.returned = "False" =>
        /\ rep.outFile = rep.before
        /\ rep.inFile = rep.given
        /\ ~rep.tmpFile.exists

\* C37 as amended: a call that fails, whatever the point, returns False and
\* leaves the file at the output path (and the input) as it was before the
\* call; the temporary file it created is gone, save where the os.remove of
\* the except clause failed itself, which is ignored.
C37FailureLeavesOutputUntouched ==
    /\ rep.pc = "done" => rep.returned \in {"True", "False"}
    /\ rep.returned = "False" =>
          /\ rep.outFile = rep.before
          /\ rep.inFile = rep.given
          /\ rep.tmpFile.exists <=> rep.removeFailed
    /\ rep.returned = "True" => ~rep.removeFailed /\ ~rep.tmpFile.exists

\* C37, its case: the input is there and the call has failed (the archive
\* was unreadable, or a write or the rename failed) with a file at the output
\* path; False is returned and no temporary file is left.
C37Witness ==
    /\ rep.returned = "False"
    /\ rep.given.exists /\ ~rep.sameOut
    /\ rep.before.exists /\ rep.outFile = rep.before
    /\ ~rep.removeFailed /\ ~rep.tmpFile.exists

\* C38: the repair of a repaired package gives that package again: the same
\* members, in the same order, each with the same bytes.
C38RepairIdempotent ==
    rep.returned = "True" => RepairMembers(RepairedPackage) = RepairedPackage

=============================================================================
